---- MODULE Spec2Model ----
(***************************************************************************)
(* A model of the signal alignment and fragmentation code of               *)
(* src/code/tools.py (class DataFramePlus) and src/code/preprocessing.py.  *)
(*                                                                         *)
(* A number of the program is a pair <<n, d>>: the rational n/d in lowest  *)
(* terms with d > 0, or one of the float64 specials NaN = <<0, 0>>,        *)
(* +inf = <<1, 0>>, -inf = <<-1, 0>>.  Rounding error is not modelled.     *)
(* A DataFrame is a function from column names to equally long sequences   *)
(* of numbers; Python positions are 0-based, TLA+ sequences 1-based.       *)
(***************************************************************************)
EXTENDS Integers, Sequences, FiniteSets, TLC

VARIABLES
    pc,              \* position of the running function
    df,              \* the DataFrame the function works on (columns -> values)
    index,           \* self.index: the row labels of the frame being fragmented
    l_bound,         \* fragment_by_iteration
    u_bound,
    MAX,
    fragments,       \* fragment_by_iteration / fragment_by_mask: list of fragments
    mask,            \* fragment_by_mask: the boolean mask func returned
    correct,         \* history: func never returned a bound below the one passed
    calls,           \* history: number of calls of func
    cross_corr,      \* find_lag / _lag: the full cross-correlation
    idx_lag,         \* find_lag: the sample delay
    time_lag,        \* find_lag: the time delay
    lag_idx,         \* DataFramePlus._lag: the sample delay
    scaling_factor,  \* preprocess
    offset,          \* preprocess: what find_offset returned
    raw,             \* history: the frame as it was handed to the function
    delay,           \* history: the delay the input's pos_mes was built with
    bias,            \* history: the offset the input's pos_mes was built with
    cleaned,         \* history: the row counts left by the cleaning steps so far
    vel_0,           \* find_zero: the crossings found so far
    idx,             \* find_zero: position of the scan
    previous,        \* find_zero: the previous sample
    zeros,           \* createinterval: what find_zero returned
    freqlist,        \* createinterval: the intervals built so far
    data,            \* extract_data_function: the moves of the profile file
    move_i,          \* extract_data_function: moves the comprehension has consumed
    extracted_data,  \* extract_data_function / module level: the descriptor rows
    file_type1,      \* module level: the profile selected
    sources,         \* module level: the rows extracted from each profile file
    chained,         \* module level: number of profile files taken in so far
    time_stamps      \* time_conversion: the windows

fragVars == <<index, l_bound, u_bound, MAX, fragments, mask, correct, calls>>

alignVars == <<df, cross_corr, idx_lag, time_lag, lag_idx, scaling_factor, offset,
               raw, delay, bias, cleaned>>

zeroVars == <<vel_0, idx, previous, zeros, freqlist>>

profVars == <<data, move_i, extracted_data, file_type1, sources, chained, time_stamps>>

vars == <<pc, fragVars, alignVars, zeroVars, profVars>>

(***************************************************************************)
(* Bounds of the model.                                                    *)
(***************************************************************************)
MaxRows == 4         \* rows of a frame handed to the fragmenters
MaxFirst == 1        \* first index label of such a frame
MaxLagRows == 3      \* rows of a frame handed to the lag estimators
MaxDerivRows == 5    \* rows of a frame handed to the derivative estimators
MaxPreRows == 7      \* rows of a frame handed to preprocess
MaxDelay == 1        \* delay, in samples, of pos_mes behind pos_cmd in such a frame
MaxZeroRows == 5     \* rows of a frame handed to find_zero / createinterval
MaxMoves == 3        \* moves of a profile file
MaxSourceLen == 2    \* descriptor rows extracted from one profile file

(***************************************************************************)
(* float64 arithmetic, exact on rationals, IEEE on the specials.           *)
(***************************************************************************)
Abs(n) == IF n < 0 THEN -n ELSE n

Sign(n) == IF n < 0 THEN -1 ELSE IF n > 0 THEN 1 ELSE 0

Min(a, b) == IF a < b THEN a ELSE b

Max(a, b) == IF a < b THEN b ELSE a

RECURSIVE GCD(_, _)
GCD(a, b) == IF b = 0 THEN a ELSE GCD(b, a % b)

Norm(n, d) ==
    IF d = 0 THEN <<Sign(n), 0>>
    ELSE LET g == GCD(Abs(n), Abs(d))
         IN  <<(Sign(d) * n) \div g, Abs(d) \div g>>

Num(n) == <<n, 1>>

NaN == <<0, 0>>

IsNaN(v) == v = NaN

IsFinite(v) == v[2] > 0

VNeg(a) == <<-a[1], a[2]>>

VAdd(a, b) ==
    IF IsNaN(a) \/ IsNaN(b) THEN NaN
    ELSE IF ~IsFinite(a) /\ ~IsFinite(b) THEN (IF a = b THEN a ELSE NaN)
    ELSE IF ~IsFinite(a) THEN a
    ELSE IF ~IsFinite(b) THEN b
    ELSE Norm(a[1] * b[2] + b[1] * a[2], a[2] * b[2])

VSub(a, b) == VAdd(a, VNeg(b))

VMul(a, b) ==
    IF IsNaN(a) \/ IsNaN(b) THEN NaN
    ELSE Norm(a[1] * b[1], a[2] * b[2])

VDiv(a, b) ==
    IF IsNaN(a) \/ IsNaN(b) THEN NaN
    ELSE IF ~IsFinite(a) /\ ~IsFinite(b) THEN NaN
    ELSE IF ~IsFinite(b) THEN Num(0)
    ELSE IF b[1] < 0 THEN Norm(-a[1] * b[2], -a[2] * b[1])
    ELSE Norm(a[1] * b[2], a[2] * b[1])

VLess(a, b) ==
    /\ ~IsNaN(a) /\ ~IsNaN(b)
    /\ a # b
    /\ IF ~IsFinite(a) THEN a[1] < 0 /\ (IsFinite(b) \/ b[1] > 0)
       ELSE IF ~IsFinite(b) THEN b[1] > 0
       ELSE a[1] * b[2] < b[1] * a[2]

(***************************************************************************)
(* DataFramePlus.fragment_by_iteration                                     *)
(***************************************************************************)
\* a faulty variant of Slice: the window is closed, rows at positions l..u
SliceClosed(s, l, u) == SubSeq(s, Max(l, 0) + 1, Min(u + 1, Len(s)))

\* self[l:u] of a frame with an integer index: the rows at positions l..u-1
Slice(s, l, u) == SubSeq(s, Max(l, 0) + 1, Min(u, Len(s)))

\* a faulty variant of NextLBound: the window is not moved to u_bound after a split
NextLBoundKeep(new_l, flag, u) == new_l

\* lines 121-123: after a split the next window starts at u_bound
NextLBound(new_l, flag, u) == IF flag THEN u ELSE new_l

\* a faulty variant of NextUBound: a split moves the upper bound one further
NextUBoundSkip(u, flag) == IF flag THEN u + 2 ELSE u + 1

\* line 124: u_bound += 1, whatever func returned
NextUBound(u, flag) == u + 1

\* the frames handed to the fragmenters: a dense index starting at `first`
Frames == {[i \in 1..n |-> first + i - 1] : n \in 0..MaxRows, first \in 0..MaxFirst}

NoFrame == [c \in {} |-> <<>>]

AlignIdle ==
    /\ df = NoFrame /\ raw = NoFrame
    /\ cross_corr = <<>> /\ idx_lag = 0 /\ time_lag = NaN /\ lag_idx = 0
    /\ scaling_factor = NaN /\ offset = NaN
    /\ delay = 0 /\ bias = 0 /\ cleaned = <<>>

ZeroIdle ==
    vel_0 = <<>> /\ idx = 0 /\ previous = Num(0) /\ zeros = <<>> /\ freqlist = <<>>

ProfIdle ==
    /\ data = <<>> /\ move_i = 0 /\ extracted_data = <<>> /\ file_type1 = ""
    /\ sources = <<>>
    /\ chained = 0 /\ time_stamps = <<>>

FragIdle ==
    /\ index = <<>> /\ l_bound = 0 /\ u_bound = 0 /\ MAX = 0
    /\ fragments = <<>> /\ mask = <<>> /\ correct = TRUE /\ calls = 0

\* a frame before one of the two fragmenters is called on it
InitFrag ==
    /\ pc = "start"
    /\ AlignIdle /\ ZeroIdle /\ ProfIdle
    /\ index \in Frames
    /\ l_bound = 0 /\ u_bound = 0 /\ MAX = 0
    /\ fragments = <<>> /\ mask = <<>> /\ correct = TRUE /\ calls = 0

\* lines 112-116; self.index[0] of an empty frame raises IndexError
IterEnter ==
    /\ pc = "start"
    /\ IF Len(index) = 0
       THEN /\ pc' = "IndexError"
            /\ UNCHANGED <<l_bound, u_bound, MAX>>
       ELSE /\ pc' = "loop"
            /\ l_bound' = index[1]
            /\ MAX' = index[Len(index)]
            /\ u_bound' = index[1] + 1
    /\ fragments' = <<>>
    /\ UNCHANGED <<index, mask, correct, calls, alignVars, zeroVars, profVars>>

\* lines 119-126: one iteration of the loop; func returns (new_l, flag)
IterStep(new_l, flag) ==
    /\ pc = "loop"
    /\ u_bound <= MAX
    /\ fragments' = IF flag THEN Append(fragments, Slice(index, new_l, u_bound))
                            ELSE fragments
    /\ l_bound' = NextLBound(new_l, flag, u_bound)
    /\ u_bound' = NextUBound(u_bound, flag)
    /\ correct' = (correct /\ new_l >= l_bound)
    /\ calls' = calls + 1
    /\ UNCHANGED <<pc, index, MAX, mask, alignVars, zeroVars, profVars>>

\* lines 119, 127-128: the loop ends when u_bound exceeds MAX
IterReturn ==
    /\ pc = "loop"
    /\ u_bound > MAX
    /\ pc' = "done"
    /\ UNCHANGED <<fragVars, alignVars, zeroVars, profVars>>

(***************************************************************************)
(* DataFramePlus.fragment_by_mask                                          *)
(***************************************************************************)
\* the rows of s whose entry in the boolean sequence keep is true: self[keep]
RECURSIVE RowsWhere(_, _)
RowsWhere(s, keep) ==
    IF s = <<>> THEN <<>>
    ELSE (IF Head(keep) THEN <<Head(s)>> ELSE <<>>) \o RowsWhere(Tail(s), Tail(keep))

\* a faulty variant of GroupKey: mask.cumsum() in place of (~mask).cumsum()
GroupKeyTrue(m, i) == Cardinality({j \in 1..i : m[j]})

\* line 146: (~mask).cumsum() at row i
GroupKey(m, i) == Cardinality({j \in 1..i : ~m[j]})

\* line 146: the keys of the groups of self[mask]
GroupKeys(m) == {GroupKey(m, i) : i \in {j \in 1..Len(m) : m[j]}}

\* groupby iterates its groups in increasing key order: the k-th key
NthKey(S, k) == CHOOSE x \in S : Cardinality({y \in S : y < x}) = k - 1

\* line 146: the group of one key, a sub-frame that keeps the rows' labels
Group(labels, m, key) == RowsWhere(labels, [i \in 1..Len(m) |-> m[i] /\ GroupKey(m, i) = key])

\* line 143: func returns one boolean per row
MaskCall(m) ==
    /\ pc = "start"
    /\ mask' = m
    /\ fragments' = <<>>
    /\ pc' = "groups"
    /\ UNCHANGED <<index, l_bound, u_bound, MAX, correct, calls, alignVars, zeroVars, profVars>>

\* lines 146-147: one iteration of the loop over the groups
MaskGroup ==
    /\ pc = "groups"
    /\ Len(fragments) < Cardinality(GroupKeys(mask))
    /\ fragments' = Append(fragments,
                           Group(index, mask, NthKey(GroupKeys(mask), Len(fragments) + 1)))
    /\ UNCHANGED <<pc, index, l_bound, u_bound, MAX, mask, correct, calls, alignVars, zeroVars, profVars>>

\* lines 149-150
MaskReturn ==
    /\ pc = "groups"
    /\ Len(fragments) = Cardinality(GroupKeys(mask))
    /\ pc' = "done_mask"
    /\ UNCHANGED <<fragVars, alignVars, zeroVars, profVars>>

NextFrag ==
    \/ IterEnter
    \/ \E new_l \in 0..(MAX + 1), flag \in BOOLEAN : IterStep(new_l, flag)
    \/ IterReturn
    \/ \E m \in [1..Len(index) -> BOOLEAN] : MaskCall(m)
    \/ MaskGroup
    \/ MaskReturn

SpecFrag == InitFrag /\ [][NextFrag]_vars

\* func returns on every call and the loop goes on once it has: what is
\* enabled is eventually done
SpecFragLive ==
    /\ SpecFrag
    /\ WF_vars(\E new_l \in 0..(MAX + 1), flag \in BOOLEAN : IterStep(new_l, flag))
    /\ WF_vars(IterReturn)

(***************************************************************************)
(* Properties of the fragmenters                                           *)
(***************************************************************************)
RECURSIVE SumLen(_)
SumLen(fs) == IF fs = <<>> THEN 0 ELSE Len(Head(fs)) + SumLen(Tail(fs))

Rows(f) == {f[i] : i \in 1..Len(f)}

\* the position (0-based) in the frame of the row labelled a
PosOf(a) == a - index[1]

\* C1: fragment_by_iteration with a predicate that never returned a bound
\* below the one it was passed: the fragments' lengths sum to at most the row
\* count, every row of an earlier fragment lies before every row of a later
\* one (so they are disjoint and in start-index order), and all of them lie
\* before the start of the current window.
C1_IterationFragmentsDisjointOrdered ==
    (pc \in {"loop", "done"} /\ correct) =>
        /\ SumLen(fragments) <= Len(index)
        /\ \A i, j \in 1..Len(fragments) :
              i < j => \A a \in Rows(fragments[i]), b \in Rows(fragments[j]) : a < b
        /\ \A i \in 1..Len(fragments) :
              /\ Cardinality(Rows(fragments[i])) = Len(fragments[i])
              /\ \A a \in Rows(fragments[i]) : PosOf(a) < l_bound

C1_Witness ==
    /\ pc = "done" /\ correct
    /\ Len(fragments) >= 2
    /\ Len(fragments[1]) >= 1 /\ Len(fragments[2]) >= 2

\* C2: fragment_by_mask returns exactly the maximal runs of consecutive
\* mask-true rows, in order of first row: no false row is in a fragment, every
\* true row is in exactly one, two true rows share a fragment iff no false
\* row lies between them, and there are as many fragments as maximal runs.
C2_MaskFragmentsAreMaximalRuns ==
    pc = "done_mask" =>
        LET N == Len(index)
            In(i, k) == index[i] \in Rows(fragments[k])
            Frags == 1..Len(fragments)
        IN  /\ \A k \in Frags :
                  /\ fragments[k] # <<>>
                  /\ Cardinality(Rows(fragments[k])) = Len(fragments[k])
                  /\ Rows(fragments[k]) \subseteq Rows(index)
                  /\ \A p \in 1..(Len(fragments[k]) - 1) :
                        fragments[k][p] < fragments[k][p + 1]
            /\ \A i \in 1..N : ~mask[i] => \A k \in Frags : ~In(i, k)
            /\ \A i \in 1..N : mask[i] => Cardinality({k \in Frags : In(i, k)}) = 1
            /\ \A i, j \in 1..N :
                  (i <= j /\ mask[i] /\ mask[j]) =>
                      ((\E k \in Frags : In(i, k) /\ In(j, k))
                          <=> (\A h \in i..j : mask[h]))
            /\ \A k \in 1..(Len(fragments) - 1) : fragments[k][1] < fragments[k + 1][1]
            /\ Len(fragments) =
                  Cardinality({i \in 1..N : mask[i] /\ (i = 1 \/ ~mask[i - 1])})

C2_Witness ==
    /\ pc = "done_mask"
    /\ Len(fragments) = 2
    /\ Len(fragments[1]) = 2
    /\ \E i \in 1..Len(mask) : ~mask[i]

(***************************************************************************)
(* Frames: columns, shift, dropna, mean                                    *)
(***************************************************************************)
NRows(f) == IF DOMAIN f = {} THEN 0 ELSE Len(f[CHOOSE c \in DOMAIN f : TRUE])

\* Series.shift(k): row i takes the value of row i - k, NaN where there is none
Shift(s, k) == [i \in 1..Len(s) |-> IF i - k \in 1..Len(s) THEN s[i - k] ELSE NaN]

\* df[name] = col
WithCol(f, name, col) == [c \in DOMAIN f \cup {name} |-> IF c = name THEN col ELSE f[c]]

\* dropna(): only a NaN is a missing value, an infinity is not
Missing(v) == IsNaN(v)

\* a faulty variant of Clean: no row is dropped
CleanNothing(f) == f

\* clean_data / DataFramePlus.clean: dropna, then reset_index (rows are dense)
Clean(f) ==
    LET keep == [i \in 1..NRows(f) |-> \A c \in DOMAIN f : ~Missing(f[c][i])]
    IN  [c \in DOMAIN f |-> RowsWhere(f[c], keep)]

RECURSIVE Sum(_)
Sum(s) == IF s = <<>> THEN Num(0) ELSE VAdd(Head(s), Sum(Tail(s)))

\* np.mean of a column; NaN for an empty one
Mean(s) == VDiv(Sum(s), Num(Len(s)))

Frame(t, cmd, mes) ==
    [c \in {"t", "pos_cmd", "pos_mes"} |->
        IF c = "t" THEN [i \in 1..Len(t) |-> Num(t[i])]
        ELSE IF c = "pos_cmd" THEN [i \in 1..Len(cmd) |-> Num(cmd[i])]
        ELSE [i \in 1..Len(mes) |-> Num(mes[i])]]

\* a time column with a constant step
Uniform(n, t0, step) == [i \in 1..n |-> t0 + (i - 1) * step]

\* a time column of step 1 whose clock stands still on rows p+1..p+w
Stall(n, p, w) == [i \in 1..n |-> IF i <= p THEN i - 1 ELSE IF i <= p + w THEN p - 1 ELSE i - 1 - w]

(***************************************************************************)
(* find_lag (preprocessing.py) and DataFramePlus._lag (tools.py)           *)
(***************************************************************************)
\* np.correlate(a, v, mode='full'): entry j (0-based) is the sum over n of
\* a[n + k] * v[n] with k = j - (N - 1)
Correlate(a, v) ==
    LET N == Len(a)
    IN  [j \in 1..(2 * N - 1) |->
            Sum([n \in 1..N |-> IF n + j - N \in 1..N
                                  THEN VMul(a[n + j - N], v[n]) ELSE Num(0)])]

\* ndarray.argmax(): the 0-based position of the first maximum (of the first
\* NaN when there is one)
ArgMax(c) ==
    IF \E i \in 1..Len(c) : IsNaN(c[i])
    THEN (CHOOSE i \in 1..Len(c) : IsNaN(c[i]) /\ \A j \in 1..(i - 1) : ~IsNaN(c[j])) - 1
    ELSE (CHOOSE i \in 1..Len(c) :
              /\ \A j \in 1..Len(c) : ~VLess(c[i], c[j])
              /\ \A j \in 1..(i - 1) : VLess(c[j], c[i])) - 1

\* preprocessing.py line 87
FindLagIdx(am, n) == Abs(am - n + 1)

\* tools.py line 240
LagIdx(am, n) == Abs(am - n)

LagValues == {-1, 0, 1}

LagFrames(n) ==
    {Frame(t, cmd, mes) :
        t \in {Uniform(n, 1, 2), Stall(n, 1, 1)},
        cmd \in [1..n -> LagValues],
        mes \in [1..n -> LagValues]}

InitLag ==
    /\ pc = "start"
    /\ FragIdle /\ ZeroIdle /\ ProfIdle
    /\ \E n \in 0..MaxLagRows : df \in LagFrames(n)
    /\ raw = df
    /\ cross_corr = <<>> /\ idx_lag = 0 /\ time_lag = NaN /\ lag_idx = 0
    /\ scaling_factor = NaN /\ offset = NaN
    /\ delay = 0 /\ bias = 0 /\ cleaned = <<>>

\* preprocessing.py lines 80-91; np.correlate refuses empty arguments
FindLag ==
    /\ pc = "start"
    /\ IF NRows(df) = 0
       THEN /\ pc' = "ValueError"
            /\ UNCHANGED <<cross_corr, idx_lag, time_lag>>
       ELSE /\ cross_corr' = Correlate(df.pos_cmd, df.pos_mes)
            /\ idx_lag' = FindLagIdx(ArgMax(cross_corr'), Len(df.pos_mes))
            /\ time_lag' = VSub(df.t[idx_lag' + 1], df.t[1])
            /\ pc' = "done_find_lag"
    /\ UNCHANGED <<df, lag_idx, scaling_factor, offset, raw, delay, bias, cleaned, fragVars, zeroVars, profVars>>

\* tools.py lines 223-242, called as _lag('pos_cmd', 'pos_mes')
Lag ==
    /\ pc = "start"
    /\ IF NRows(df) = 0
       THEN /\ pc' = "ValueError"
            /\ UNCHANGED <<cross_corr, lag_idx>>
       ELSE /\ cross_corr' = Correlate(df.pos_cmd, df.pos_mes)
            /\ lag_idx' = LagIdx(ArgMax(cross_corr'), Len(df.pos_mes))
            /\ pc' = "done_lag"
    /\ UNCHANGED <<df, idx_lag, time_lag, scaling_factor, offset, raw, delay, bias, cleaned,
                   fragVars, zeroVars, profVars>>

NextLag == FindLag \/ Lag

SpecLag == InitLag /\ [][NextLag]_vars

\* pos_mes is pos_cmd delayed by k samples, zero-padded, no sample being lost
\* off the end; pos_cmd is not all zero, so the correlation has one peak
PaddedDelay(k) ==
    LET cmd == df.pos_cmd
        mes == df.pos_mes
        N == Len(cmd)
    IN  /\ k \in 0..(N - 1)
        /\ \E i \in 1..N : cmd[i] # Num(0)
        /\ \A i \in (N - k + 1)..N : cmd[i] = Num(0)
        /\ \A i \in 1..N : mes[i] = IF i > k THEN cmd[i - k] ELSE Num(0)

\* C3: the lag estimators return sample delay k (0 for identical series) and
\* find_lag the time delay t[k] - t[0] for a series and its copy delayed by k
\* samples.
C3_LagEstimatorsRecoverDelay ==
    \A k \in 0..MaxLagRows :
        PaddedDelay(k) =>
            /\ pc = "done_find_lag" =>
                   idx_lag = k /\ time_lag = VSub(df.t[k + 1], df.t[1])
            /\ pc = "done_lag" => lag_idx = k

\* what find_lag alone satisfies
FindLagRecoversDelay ==
    \A k \in 0..MaxLagRows :
        (PaddedDelay(k) /\ pc = "done_find_lag") =>
            idx_lag = k /\ time_lag = VSub(df.t[k + 1], df.t[1])

(***************************************************************************)
(* DataFramePlus.dydx (tools.py) and find_derivatives (preprocessing.py)   *)
(***************************************************************************)
\* a faulty variant of Deriv: a forward difference
DerivForward(y, x) ==
    [i \in 1..Len(y) |-> VDiv(VSub(Shift(y, -1)[i], y[i]), VSub(Shift(x, -1)[i], x[i]))]

\* tools.py line 167, preprocessing.py lines 68-69
Deriv(y, x) ==
    [i \in 1..Len(y) |-> VDiv(VSub(Shift(y, -1)[i], Shift(y, 1)[i]),
                              VSub(Shift(x, -1)[i], Shift(x, 1)[i]))]

\* time columns starting at 0 whose steps are 0, 1 or 2
RECURSIVE Running(_)
Running(steps) ==
    IF steps = <<>> THEN <<0>>
    ELSE LET r == Running(SubSeq(steps, 1, Len(steps) - 1))
         IN  Append(r, r[Len(r)] + steps[Len(steps)])

StepTimes(n) == IF n = 0 THEN {<<>>} ELSE {Running(st) : st \in [1..(n - 1) -> {0, 1, 2}]}

RampSlopes == {-1, 2}

DerivFrames(n) ==
    {Frame(t, [i \in 1..n |-> 0], y) : t \in StepTimes(n), y \in [1..n -> {0, 1}]}
    \cup {Frame(t, [i \in 1..n |-> 0], [i \in 1..n |-> k * t[i]]) :
              t \in StepTimes(n), k \in RampSlopes}

InitDeriv ==
    /\ pc = "start"
    /\ FragIdle /\ ZeroIdle /\ ProfIdle
    /\ \E n \in 0..MaxDerivRows : df \in DerivFrames(n)
    /\ raw = df
    /\ cross_corr = <<>> /\ idx_lag = 0 /\ time_lag = NaN /\ lag_idx = 0
    /\ scaling_factor = NaN /\ offset = NaN
    /\ delay = 0 /\ bias = 0 /\ cleaned = <<>>

\* tools.py lines 152-169: dydx(xcol, ycol, deriv_name), ending in clean()
Dydx(xcol, ycol, deriv_name, from, to) ==
    /\ pc = from
    /\ df' = Clean(WithCol(df, deriv_name, Deriv(df[ycol], df[xcol])))
    /\ cleaned' = Append(cleaned, NRows(df'))
    /\ pc' = to
    /\ UNCHANGED <<cross_corr, idx_lag, time_lag, lag_idx, scaling_factor, offset,
                   raw, delay, bias, fragVars, zeroVars, profVars>>

\* preprocessing.py lines 64-72: both columns are computed, then clean_data
DerivativesOf(f) ==
    LET v == WithCol(f, "vel_mes", Deriv(f.pos_mes, f.t))
    IN  Clean(WithCol(v, "acc_mes", Deriv(v.vel_mes, v.t)))

FindDerivatives ==
    /\ pc = "start"
    /\ df' = DerivativesOf(df)
    /\ cleaned' = Append(cleaned, NRows(df'))
    /\ pc' = "done_find_derivatives"
    /\ UNCHANGED <<cross_corr, idx_lag, time_lag, lag_idx, scaling_factor, offset,
                   raw, delay, bias, fragVars, zeroVars, profVars>>

NextDeriv ==
    \/ Dydx("t", "pos_mes", "vel_mes", "start", "done_dydx")
    \/ Dydx("t", "vel_mes", "acc_mes", "done_dydx", "done_dydx2")
    \/ FindDerivatives

SpecDeriv == InitDeriv /\ [][NextDeriv]_vars

\* the central difference of y over x at row i (1-based) of the original frame
Central1(i) ==
    VDiv(VSub(raw.pos_mes[i + 1], raw.pos_mes[i - 1]), VSub(raw.t[i + 1], raw.t[i - 1]))

Central2(i) ==
    VDiv(VSub(Central1(i + 1), Central1(i - 1)), VSub(raw.t[i + 1], raw.t[i - 1]))

DistinctX == \A i \in 1..(NRows(raw) - 1) : raw.t[i] # raw.t[i + 1]

FreqSample == 100

\* a faulty variant of ShiftBack: the measured columns are shifted the other way
ShiftForward(s, k) == Shift(s, k)

\* lines 134-136: Series.shift(-idx_lag)
ShiftBack(s, k) == Shift(s, -k)

\* line 78: find_offset
FindOffset(f) == VSub(Mean(f.pos_mes), Mean(f.pos_cmd))

\* pos_cmd delayed by d samples (zero-padded) plus the constant c
Delayed(cmd, d, c) == [i \in 1..Len(cmd) |-> (IF i > d THEN cmd[i - d] ELSE 0) + c]

PreTimes(n) ==
    {Uniform(n, 0, 1), Uniform(n, 3, 2), Stall(n, 1, 1), Stall(n, 2, 2), Stall(n, 3, 1)}

Biases == {0, 1}

InitPre ==
    /\ pc = "start"
    /\ FragIdle /\ ZeroIdle /\ ProfIdle
    /\ delay \in 0..MaxDelay
    /\ bias \in Biases
    /\ \E n \in 0..MaxPreRows :
          \E cmd \in [1..n -> {0, 1}], t \in PreTimes(n) :
              df = Frame(t, cmd, Delayed(cmd, delay, bias))
    /\ raw = df
    /\ cross_corr = <<>> /\ idx_lag = 0 /\ time_lag = NaN /\ lag_idx = 0
    /\ scaling_factor = NaN /\ offset = NaN
    /\ cleaned = <<>>

\* lines 119-124; df.loc[1, 't'] raises KeyError when there is no row 1
PreRescale ==
    /\ pc = "start"
    /\ IF NRows(df) < 2
       THEN /\ pc' = "KeyError"
            /\ UNCHANGED <<df, scaling_factor>>
       ELSE /\ scaling_factor' = VDiv(Norm(1, FreqSample), VSub(df.t[2], df.t[1]))
            /\ df' = WithCol(df, "t", [i \in 1..NRows(df) |-> VMul(df.t[i], scaling_factor')])
            /\ pc' = "pre_derive"
    /\ UNCHANGED <<cross_corr, idx_lag, time_lag, lag_idx, offset, raw, delay, bias,
                   cleaned, fragVars, zeroVars, profVars>>

\* line 127
PreDerive ==
    /\ pc = "pre_derive"
    /\ df' = DerivativesOf(df)
    /\ cleaned' = Append(cleaned, NRows(df'))
    /\ pc' = "pre_offset"
    /\ UNCHANGED <<cross_corr, idx_lag, time_lag, lag_idx, scaling_factor, offset,
                   raw, delay, bias, fragVars, zeroVars, profVars>>

\* line 130
PreOffset ==
    /\ pc = "pre_offset"
    /\ offset' = FindOffset(df)
    /\ df' = WithCol(df, "pos_mes", [i \in 1..NRows(df) |-> VSub(df.pos_mes[i], offset')])
    /\ pc' = "pre_lag"
    /\ UNCHANGED <<cross_corr, idx_lag, time_lag, lag_idx, scaling_factor,
                   raw, delay, bias, cleaned, fragVars, zeroVars, profVars>>

\* lines 133-137: find_lag, the three shifts, clean_data
PreLag ==
    /\ pc = "pre_lag"
    /\ IF NRows(df) = 0
       THEN /\ pc' = "ValueError"
            /\ UNCHANGED <<df, cross_corr, idx_lag, time_lag, cleaned>>
       ELSE /\ cross_corr' = Correlate(df.pos_cmd, df.pos_mes)
            /\ idx_lag' = FindLagIdx(ArgMax(cross_corr'), Len(df.pos_mes))
            /\ time_lag' = VSub(df.t[idx_lag' + 1], df.t[1])
            /\ df' = Clean([c \in DOMAIN df |->
                               IF c \in {"pos_mes", "vel_mes", "acc_mes"}
                               THEN ShiftBack(df[c], idx_lag') ELSE df[c]])
            /\ cleaned' = Append(cleaned, NRows(df'))
            /\ pc' = "pre_rezero"
    /\ UNCHANGED <<lag_idx, scaling_factor, offset, raw, delay, bias, fragVars, zeroVars, profVars>>

\* line 140; df.loc[0, 't'] raises KeyError when no row is left
PreRezero ==
    /\ pc = "pre_rezero"
    /\ IF NRows(df) = 0
       THEN /\ pc' = "KeyError"
            /\ UNCHANGED df
       ELSE /\ df' = WithCol(df, "t", [i \in 1..NRows(df) |-> VSub(df.t[i], df.t[1])])
            /\ pc' = "done_preprocess"
    /\ UNCHANGED <<cross_corr, idx_lag, time_lag, lag_idx, scaling_factor, offset,
                   raw, delay, bias, cleaned, fragVars, zeroVars, profVars>>

NextPre ==
    \/ PreRescale
    \/ PreDerive
    \/ PreOffset
    \/ PreLag
    \/ PreRezero

SpecPre == InitPre /\ [][NextPre]_vars

\* the input's time column has a constant positive step
UniformTime ==
    /\ NRows(raw) >= 2
    /\ VLess(raw.t[1], raw.t[2])
    /\ \A i \in 1..(NRows(raw) - 1) : VSub(raw.t[i + 1], raw.t[i]) = VSub(raw.t[2], raw.t[1])

\* C5: a run of preprocess in which a cleaning step left fewer than 3 rows
\* does not complete normally.
C5_ShortFrameFailsLoudly ==
    pc = "done_preprocess" => \A i \in 1..Len(cleaned) : cleaned[i] >= 3

\* C6 as claimed: for pos_mes = pos_cmd delayed by d plus c (uniform time,
\* pos_cmd not all zero on the rows the derivative step keeps, no cleaning
\* step leaving fewer than 3 rows) preprocess reports lag d and leaves
\* pos_mes equal to pos_cmd on every row.
C6_AlignsDelayedCopy ==
    (/\ pc = "done_preprocess"
     /\ UniformTime
     /\ \A i \in 1..Len(cleaned) : cleaned[i] >= 3
     /\ \E i \in 3..(NRows(raw) - 2) : raw.pos_cmd[i] # Num(0)) =>
        /\ idx_lag = delay
        /\ \A j \in 1..NRows(df) : df.pos_mes[j] = df.pos_cmd[j]

\* C6 as amended: when the mean difference find_offset returned equals c and
\* the first maximum of the cross-correlation lies at delay d, preprocess
\* reports lag d and leaves pos_mes equal to pos_cmd on every remaining row.
C6_AlignsWhenOffsetAndPeakExact ==
    (/\ pc = "done_preprocess"
     /\ UniformTime
     /\ offset = Num(bias)
     /\ ArgMax(cross_corr) = (Len(cross_corr) - 1) \div 2 - delay) =>
        /\ idx_lag = delay
        /\ \A j \in 1..NRows(df) : df.pos_mes[j] = df.pos_cmd[j]

C6_Witness ==
    /\ pc = "done_preprocess"
    /\ UniformTime
    /\ delay = 1 /\ bias = 1
    /\ offset = Num(bias)
    /\ ArgMax(cross_corr) = (Len(cross_corr) - 1) \div 2 - delay
    /\ idx_lag = 1
    /\ NRows(df) >= 2
    /\ \E j \in 1..NRows(df) : df.pos_cmd[j] # Num(0)

(***************************************************************************)
(* find_zero and createinterval (preprocessing.py)                         *)
(***************************************************************************)
\* list(range(a, b))
Range(a, b) == [k \in 1..(b - a) |-> a + k - 1]

\* a faulty variant of IntervalOf: from a crossing to the next one
IntervalToNext(zs, zero) == Range(zs[zero + 1], zs[zero + 2])

\* lines 108-110: from crossing number zero (0-based) to the one two later
IntervalOf(zs, zero) == Range(zs[zero + 1], zs[zero + 3])

\* the commanded velocity of the scenario: the sign changes at rows 10, 40,
\* 70 and 100
ScenarioVel ==
    [i \in 1..101 |-> IF i - 1 < 10 THEN 1 ELSE IF i - 1 < 40 THEN -1
                       ELSE IF i - 1 < 70 THEN 1 ELSE IF i - 1 < 100 THEN -1 ELSE 1]

ZeroFrames ==
    {[c \in {"vel_cmd"} |-> [i \in 1..Len(v) |-> Num(v[i])]] :
        v \in UNION {[1..n -> {-1, 0, 1}] : n \in 0..MaxZeroRows} \cup {ScenarioVel}}

InitZero ==
    /\ pc = "start"
    /\ FragIdle /\ ZeroIdle /\ ProfIdle
    /\ df \in ZeroFrames
    /\ raw = df
    /\ cross_corr = <<>> /\ idx_lag = 0 /\ time_lag = NaN /\ lag_idx = 0
    /\ scaling_factor = NaN /\ offset = NaN
    /\ delay = 0 /\ bias = 0 /\ cleaned = <<>>

\* lines 105, 94-96: createinterval calls find_zero
ZeroEnter ==
    /\ pc = "start"
    /\ idx' = 0
    /\ vel_0' = <<>>
    /\ previous' = Num(0)
    /\ pc' = "find_zero"
    /\ UNCHANGED <<zeros, freqlist, fragVars, alignVars, profVars>>

\* lines 97-101: one element of df['vel_cmd']
ZeroStep ==
    /\ pc = "find_zero"
    /\ idx < Len(df.vel_cmd)
    /\ LET element == df.vel_cmd[idx + 1]
       IN  /\ vel_0' = IF VLess(VMul(previous, element), Num(0))
                        THEN Append(vel_0, idx) ELSE vel_0
           /\ previous' = element
    /\ idx' = idx + 1
    /\ UNCHANGED <<pc, zeros, freqlist, fragVars, alignVars, profVars>>

\* lines 102, 105-106
ZeroReturn ==
    /\ pc = "find_zero"
    /\ idx = Len(df.vel_cmd)
    /\ zeros' = vel_0
    /\ freqlist' = <<>>
    /\ pc' = "intervals"
    /\ UNCHANGED <<vel_0, idx, previous, fragVars, alignVars, profVars>>

\* lines 107-111: one pass of the loop over range(len(zeros) - 2)
IntervalStep ==
    /\ pc = "intervals"
    /\ Len(freqlist) < Len(zeros) - 2
    /\ freqlist' = Append(freqlist, IntervalOf(zeros, Len(freqlist)))
    /\ UNCHANGED <<pc, vel_0, idx, previous, zeros, fragVars, alignVars, profVars>>

\* line 112
IntervalReturn ==
    /\ pc = "intervals"
    /\ Len(freqlist) >= Len(zeros) - 2
    /\ pc' = "done_createinterval"
    /\ UNCHANGED <<zeroVars, fragVars, alignVars, profVars>>

NextZero ==
    \/ ZeroEnter
    \/ ZeroStep
    \/ ZeroReturn
    \/ IntervalStep
    \/ IntervalReturn

SpecZero == InitZero /\ [][NextZero]_vars

\* row i (0-based, i >= 1) is a sign change of vel_cmd
SignChange(i) ==
    LET a == df.vel_cmd[i][1]
        b == df.vel_cmd[i + 1][1]
    IN  (a < 0 /\ b > 0) \/ (a > 0 /\ b < 0)

\* C7: find_zero returns, in increasing order, exactly the rows i >= 1 with
\* vel_cmd[i-1] * vel_cmd[i] < 0; createinterval returns max(k-2, 0)
\* intervals, the j-th being the rows z_j .. z_{j+2} - 1; the crossings 10,
\* 40, 70, 100 give the two intervals [10, 70) and [40, 100).
C7_ZeroCrossingIntervals ==
    LET N == Len(df.vel_cmd)
        k == Len(zeros)
    IN  /\ pc = "find_zero" =>
              /\ \A p \in 1..(Len(vel_0) - 1) : vel_0[p] < vel_0[p + 1]
              /\ Rows(vel_0) = {i \in 1..(idx - 1) : SignChange(i)}
        /\ pc \in {"intervals", "done_createinterval"} =>
              /\ \A p \in 1..(k - 1) : zeros[p] < zeros[p + 1]
              /\ Rows(zeros) = {i \in 1..(N - 1) : SignChange(i)}
        /\ pc = "done_createinterval" =>
              /\ Len(freqlist) = IF k >= 2 THEN k - 2 ELSE 0
              /\ \A j \in 1..Len(freqlist) :
                    /\ Len(freqlist[j]) = zeros[j + 2] - zeros[j]
                    /\ \A e \in 1..Len(freqlist[j]) : freqlist[j][e] = zeros[j] + e - 1
              /\ zeros = <<10, 40, 70, 100>> =>
                    /\ Len(freqlist) = 2
                    /\ freqlist[1] = [e \in 1..60 |-> 9 + e]
                    /\ freqlist[2] = [e \in 1..60 |-> 39 + e]

C7_Witness ==
    /\ pc = "done_createinterval"
    /\ zeros = <<10, 40, 70, 100>>
    /\ Len(freqlist) = 2
    /\ freqlist[1][1] = 10 /\ freqlist[1][60] = 69
    /\ freqlist[2][1] = 40 /\ freqlist[2][60] = 99

(***************************************************************************)
(* extract_data_function (preprocessing.py)                                *)
(***************************************************************************)
\* a JSON object without one of its keys
Drop(f, key) == [k \in DOMAIN f \ {key} |-> f[k]]

\* a complete move of the profile file
Move(time, type) ==
    [time |-> time,
     move |-> [axis |-> "z",
               profile |-> [type |-> type, Tfade |-> 1, Ttotal |-> 5,
                            omg |-> <<1>>, gain |-> 1, phi0 |-> 0]]]

ProfileFields == {"Tfade", "Ttotal", "omg", "gain", "phi0"}

\* the moves a file may hold at one place: complete ones of the matched and
\* of another waveform type, one without a profile, and matched ones that
\* lack one of the fields the row is built from
MovesAt(time) ==
    LET sine == Move(time, "FadedSineProfile")
    IN  {sine, Move(time, "StepProfile"), [sine EXCEPT !.move = Drop(sine.move, "profile")],
         Drop(sine, "time"), [sine EXCEPT !.move = Drop(sine.move, "axis")]}
        \cup {[sine EXCEPT !.move.profile = Drop(sine.move.profile, f)] : f \in ProfileFields}

\* line 205: the filter of the comprehension
Matched(m) ==
    /\ "profile" \in DOMAIN m.move
    /\ m.move.profile.type \in {"FadedSineProfile"}

\* lines 198-204: the keys the row of a move is built from
RowKeysPresent(m) ==
    /\ "time" \in DOMAIN m
    /\ ProfileFields \subseteq DOMAIN m.move.profile
    /\ "axis" \in DOMAIN m.move

\* lines 198-204
RowOf(m) ==
    <<m.time, m.move.profile.Tfade, m.move.profile.Ttotal, m.move.profile.omg,
      m.move.profile.gain, m.move.profile.phi0, m.move.axis>>

\* the files of n moves, the i-th move at time 10 * i
RECURSIVE MoveLists(_)
MoveLists(n) ==
    IF n = 0 THEN {<<>>}
    ELSE {Append(l, m) : l \in MoveLists(n - 1), m \in MovesAt(10 * n)}

InitExtract ==
    /\ pc = "start"
    /\ FragIdle /\ ZeroIdle /\ AlignIdle
    /\ data \in UNION {MoveLists(n) : n \in 0..MaxMoves}
    /\ move_i = 0 /\ extracted_data = <<>> /\ file_type1 = "" /\ sources = <<>>
    /\ chained = 0 /\ time_stamps = <<>>

\* lines 197-206: one move of data["moves"]; a missing key raises KeyError
ExtractStep ==
    /\ pc = "start"
    /\ move_i < Len(data)
    /\ LET m == data[move_i + 1]
       IN  IF ~Matched(m)
           THEN /\ move_i' = move_i + 1
                /\ UNCHANGED <<pc, extracted_data>>
           ELSE IF ~RowKeysPresent(m)
           THEN /\ pc' = "KeyError"
                /\ UNCHANGED <<move_i, extracted_data>>
           ELSE /\ extracted_data' = Append(extracted_data, RowOf(m))
                /\ move_i' = move_i + 1
                /\ UNCHANGED pc
    /\ UNCHANGED <<data, file_type1, sources, chained, time_stamps,
                   fragVars, alignVars, zeroVars>>

\* line 207
ExtractReturn ==
    /\ pc = "start"
    /\ move_i = Len(data)
    /\ pc' = "done_extract"
    /\ UNCHANGED <<profVars, fragVars, alignVars, zeroVars>>

NextExtract == ExtractStep \/ ExtractReturn

SpecExtract == InitExtract /\ [][NextExtract]_vars

\* the rows of the matched moves of ms that have all their fields, in order
RECURSIVE WellFormedRows(_)
WellFormedRows(ms) ==
    IF ms = <<>> THEN <<>>
    ELSE (IF Matched(Head(ms)) /\ RowKeysPresent(Head(ms)) THEN <<RowOf(Head(ms))>> ELSE <<>>)
         \o WellFormedRows(Tail(ms))

\* C10: the extraction never aborts; a matched descriptor that lacks a field
\* is skipped and every well-formed matched descriptor is returned, in order.
C10_MalformedDescriptorSkipped ==
    /\ pc # "KeyError"
    /\ pc = "done_extract" => extracted_data = WellFormedRows(data)

(***************************************************************************)
(* Module-level profile chaining and time_conversion (preprocessing.py)    *)
(***************************************************************************)
\* line 216: the scale 10**-4 and the 6 decimals of round
TicksPerSecond == 10000

RoundUnit == 1000000

\* line 216: round(entry * 10**-4, 6)
ToSeconds(entry) ==
    LET v == Norm(entry, TicksPerSecond)
    IN  Norm((2 * v[1] * RoundUnit + v[2]) \div (2 * v[2]), RoundUnit)

\* a faulty variant of WindowOf: the window runs from the start time to its end
WindowWhole(row) == <<ToSeconds(row[1]), ToSeconds(row[3] + row[1])>>

\* lines 212-215: [Tfade + time, Ttotal + time - Tfade], the same in both
\* branches of the test on len(omg)
WindowOf(row) ==
    IF Len(row[4]) = 1
    THEN <<ToSeconds(row[2] + row[1]), ToSeconds(row[3] + row[1] - row[2])>>
    ELSE <<ToSeconds(row[2] + row[1]), ToSeconds(row[3] + row[1] - row[2])>>

\* lines 209-217
TimeConversionOf(rows) == [i \in 1..Len(rows) |-> WindowOf(rows[i])]

\* lines 234-235, 238-239, 244-245: row i of the next file takes the time of
\* row i of extracted_data plus the last row's time and Ttotal
ShiftedRows(ed, ed2) ==
    [i \in 1..Len(ed2) |->
        [ed2[i] EXCEPT ![1] = ed[i][1] + ed[Len(ed)][1] + ed[Len(ed)][3]]]

\* a descriptor row as extract_data_function returns it
Desc(time, Ttotal) == <<time, 1, Ttotal, <<1>>, 1, 0, "z">>

\* the rows of one file: chronologically ordered, windows not overlapping
RECURSIVE SourceLists(_)
SourceLists(n) ==
    IF n = 0 THEN {<<>>}
    ELSE {Append(l, d) :
            l \in SourceLists(n - 1),
            d \in {Desc(6 * k, T) : k \in 0..(MaxSourceLen - 1), T \in {3, 5}}}

Ordered(rows) ==
    \A i \in 1..(Len(rows) - 1) : rows[i][3] + rows[i][1] - rows[i][2] <= rows[i + 1][2] + rows[i + 1][1]

Sources == {l \in UNION {SourceLists(n) : n \in 0..MaxSourceLen} : Ordered(l)}

\* lines 219-246: the profile files chained for each selection
FilesOf(type) ==
    IF type = "MULTI-SINE-1" THEN 3 ELSE IF type = "AGARD-AR-144-B" THEN 2 ELSE 1

InitChain ==
    /\ pc = "start"
    /\ FragIdle /\ ZeroIdle /\ AlignIdle
    /\ file_type1 \in {"MULTI-SINE-1", "AGARD-AR-144-B", "AGARD-AR-144-A"}
    /\ sources \in [1..FilesOf(file_type1) -> Sources]
    /\ data = <<>> /\ move_i = 0 /\ extracted_data = <<>>
    /\ chained = 0 /\ time_stamps = <<>>

\* line 231
ChainFirst ==
    /\ pc = "start"
    /\ extracted_data' = sources[1]
    /\ chained' = 1
    /\ pc' = "chaining"
    /\ UNCHANGED <<data, move_i, file_type1, sources, time_stamps,
                   fragVars, alignVars, zeroVars>>

\* lines 233-236, 237-240, 243-246: the next file is shifted and appended;
\* extracted_data[i] raises IndexError when the next file has more rows
ChainNext ==
    /\ pc = "chaining"
    /\ chained < Len(sources)
    /\ LET extracted_data2 == sources[chained + 1]
       IN  IF Len(extracted_data2) > Len(extracted_data)
           THEN /\ pc' = "IndexError"
                /\ UNCHANGED <<extracted_data, chained>>
           ELSE /\ extracted_data' =
                       extracted_data \o ShiftedRows(extracted_data, extracted_data2)
                /\ chained' = chained + 1
                /\ UNCHANGED pc
    /\ UNCHANGED <<data, move_i, file_type1, sources, time_stamps,
                   fragVars, alignVars, zeroVars>>

\* line 266
TimeConversion ==
    /\ pc = "chaining"
    /\ chained = Len(sources)
    /\ time_stamps' = TimeConversionOf(extracted_data)
    /\ pc' = "done_chain"
    /\ UNCHANGED <<data, move_i, extracted_data, file_type1, sources, chained,
                   fragVars, alignVars, zeroVars>>

NextChain == ChainFirst \/ ChainNext \/ TimeConversion

SpecChain == InitChain /\ [][NextChain]_vars

\* a time in descriptor units as time_conversion reports it
Ticks(n) == Norm(n, TicksPerSecond)

\* two profile files, each holding the descriptor time=0, Tfade=1, Ttotal=5
TwoChainedFiles == sources = <<<<Desc(0, 5)>>, <<Desc(0, 5)>>>>

\* C8 as claimed: the windows of the two chained files are [1,4] and [9,12].
C8_WindowsAsClaimed ==
    (pc = "done_chain" /\ TwoChainedFiles) =>
        time_stamps = <<<<Ticks(1), Ticks(4)>>, <<Ticks(9), Ticks(12)>>>>

\* C8 as amended: the windows of the two chained files are [1,4] and [6,9]:
\* the second file's time becomes 0 + 0 + 5 and its window
\* [Tfade + time, Ttotal + time - Tfade].
C8_WindowsOfTwoChainedFiles ==
    (pc = "done_chain" /\ TwoChainedFiles) =>
        time_stamps = <<<<Ticks(1), Ticks(4)>>, <<Ticks(6), Ticks(9)>>>>

C8_Witness ==
    /\ pc = "done_chain" /\ TwoChainedFiles
    /\ Len(time_stamps) = 2
    /\ time_stamps[2] = <<Ticks(6), Ticks(9)>>

\* number of rows the files before file k hold
RECURSIVE RowsBefore(_)
RowsBefore(k) == IF k <= 1 THEN 0 ELSE RowsBefore(k - 1) + Len(sources[k - 1])

\* C9: chaining never fails; every descriptor of a later file keeps its own
\* time shifted by the last start time plus total duration of what came
\* before; the windows are chronologically ordered and do not overlap.
C9_ChainedWindowsOrdered ==
    /\ pc # "IndexError"
    /\ pc \in {"chaining", "done_chain"} =>
          \A k \in 2..chained : \A i \in 1..Len(sources[k]) :
              LET b == RowsBefore(k)
              IN  extracted_data[b + i][1] =
                      sources[k][i][1] + extracted_data[b][1] + extracted_data[b][3]
    /\ pc = "done_chain" =>
          \A i, j \in 1..Len(time_stamps) :
              i < j => ~VLess(time_stamps[j][1], time_stamps[i][2])

(***************************************************************************)
(* The time column after a cleaning step                                   *)
(***************************************************************************)
\* the time column of the frame as it was handed in never decreases
NonDecreasing(f) ==
    \A i \in 1..(NRows(f) - 1) : ~VLess(f.t[i + 1], f.t[i]) /\ ~IsNaN(f.t[i])

StrictlyIncreasing(f) == \A i \in 1..(NRows(f) - 1) : VLess(f.t[i], f.t[i + 1])

\* C11: after the cleaning step that ends dydx and find_derivatives the time
\* column is strictly increasing, for every input whose time column never
\* decreases.
C11_TimeStrictlyIncreasingAfterClean ==
    (pc \in {"done_dydx", "done_dydx2", "done_find_derivatives"} /\ NonDecreasing(raw)) =>
        StrictlyIncreasing(df)

(***************************************************************************)
(* More properties of the fragmenters                                      *)
(***************************************************************************)
\* C12: the row index of every fragment of fragment_by_iteration and of
\* fragment_by_mask is the dense range 0..len-1.
C12_FragmentsReindexedFromZero ==
    \A k \in 1..Len(fragments) :
        \A p \in 1..Len(fragments[k]) : fragments[k][p] = p - 1

\* C13: fragment_by_iteration terminates whatever func returns: u_bound
\* starts at the first index + 1 and grows by exactly 1 with every call of
\* func, the loop ends as soon as u_bound exceeds the last index, func having
\* been called (last index - first index) times, and a loop that has begun
\* does end.
C13_IterationTerminates ==
    /\ [](pc = "loop" => u_bound = index[1] + 1 + calls)
    /\ [][(pc = "loop" /\ pc' = "loop") =>
              (u_bound' = u_bound + 1 /\ calls' = calls + 1)]_vars
    /\ [](pc = "done" => (u_bound = MAX + 1 /\ calls = MAX - index[1]))
    /\ ((pc = "loop") ~> (pc = "done"))

C13_Witness ==
    /\ pc = "done"
    /\ calls = MAX - index[1] /\ calls >= 3
    /\ ~correct
    /\ Len(fragments) >= 1

\* C14 as claimed: on any frame, the row at the last index is in no fragment
\* of fragment_by_iteration, so the fragments never cover the whole frame.
C14_LastRowNeverInFragment ==
    pc \in {"loop", "done"} =>
        /\ \A k \in 1..Len(fragments) : index[Len(index)] \notin Rows(fragments[k])
        /\ UNION {Rows(fragments[k]) : k \in 1..Len(fragments)} # Rows(index)

\* C14 for a frame whose index starts at 0: every fragment is a run of
\* consecutive rows below the upper bound of the call that made it, which is
\* at most the last index, so the last row is in no fragment and the
\* fragments never cover the whole frame; a call that signals no split adds
\* no fragment, so the rows of a trailing window without a split are in no
\* fragment either.
C14_LastRowOutsideWhenIndexFromZero ==
    /\ []((pc \in {"loop", "done"} /\ index[1] = 0) =>
             /\ \A k \in 1..Len(fragments) :
                   /\ \A p \in 1..(Len(fragments[k]) - 1) :
                         fragments[k][p + 1] = fragments[k][p] + 1
                   /\ \A a \in Rows(fragments[k]) : a <= u_bound - 2 /\ a < MAX
                   /\ index[Len(index)] \notin Rows(fragments[k])
             /\ UNION {Rows(fragments[k]) : k \in 1..Len(fragments)} # Rows(index))
    /\ [][(pc = "loop" /\ pc' = "loop" /\ index[1] = 0) =>
              \/ fragments' = fragments
              \/ /\ Len(fragments') = Len(fragments) + 1
                 /\ SubSeq(fragments', 1, Len(fragments)) = fragments
                 /\ l_bound' = u_bound
                 /\ \A a \in Rows(fragments'[Len(fragments')]) : a < u_bound]_vars

\* func signalled a split on every call, and the last row is in no fragment
C14_Witness ==
    /\ pc = "done" /\ index[1] = 0
    /\ calls >= 3 /\ Len(fragments) = calls
    /\ \A k \in 1..Len(fragments) : fragments[k] # <<>>
    /\ \A k \in 1..Len(fragments) : index[Len(index)] \notin Rows(fragments[k])

(***************************************************************************)
(* The lag found by find_lag inside preprocess                             *)
(***************************************************************************)
\* what find_lag returns on any non-empty frame
FindLagIdxInRange ==
    pc = "done_find_lag" =>
        /\ idx_lag \in 0..(NRows(df) - 1)
        /\ time_lag = VSub(df.t[idx_lag + 1], df.t[1])

\* C15: on the N >= 1 rows the derivative step left, find_lag returns a
\* sample delay in 0..N-1, so its lookup of t is in range; the shift by
\* -idx_lag followed by the cleaning leaves N - idx_lag >= 1 rows, the
\* re-zeroing never fails for want of a row 0, and it makes t[0] equal to 0.
C15_LagInRangeRowsLeft ==
    /\ pc \in {"pre_rezero", "done_preprocess"} =>
          /\ Len(cleaned) = 2
          /\ cleaned[1] >= 1
          /\ idx_lag \in 0..(cleaned[1] - 1)
          /\ cleaned[2] = cleaned[1] - idx_lag
          /\ NRows(df) = cleaned[2] /\ NRows(df) >= 1
    /\ pc = "KeyError" => cleaned = <<>>
    /\ pc = "done_preprocess" => df.t[1] = Num(0)

C15_Witness ==
    /\ pc = "done_preprocess"
    /\ idx_lag >= 1
    /\ cleaned[2] = cleaned[1] - idx_lag /\ cleaned[2] >= 2
    /\ raw.t[1] # Num(0)
    /\ df.t[1] = Num(0) /\ df.t[2] # Num(0)

====
